---- MODULE Spec2Model ----
(***************************************************************************)
(* LUDI_VERIFIER.py: the fingerprint engine (calculate_content_hash), the  *)
(* record builder (simulate_blockchain_timestamp), the request driver      *)
(* (run_ludi_verification) and the command-line entry point, as one        *)
(* sequential process that is invoked again and again on a file system     *)
(* that other processes change between the invocations.                    *)
(*                                                                         *)
(* Scaling.  Bytes are 0..1, a file holds at most MaxLen bytes, f.read     *)
(* asks for ChunkSize bytes (65536 in the source), a second has            *)
(* TicksPerSec clock ticks (10^6 microseconds in the source).              *)
(*                                                                         *)
(* hashlib is modelled symbolically: the state of a hasher is the message  *)
(* absorbed so far, update appends to it, and hexdigest is the (ideal,     *)
(* collision-free) digest string of the absorbed message.                  *)
(***************************************************************************)
EXTENDS Integers, Sequences, FiniteSets

\* ---------------------------------------------------------------- bounds
MaxLen == 2
ChunkSize == 1
TicksPerSec == 2
MaxClock == 3
MaxDrift == 1

\* ------------------------------------------------------------ Python values
None == [type |-> "NoneType"]

\* Exit status of an interpreter ended by an uncaught KeyboardInterrupt
\* (the process dies of SIGINT, signal 2).
InterruptedStatus == 128 + 2

Byte == 0..1

RECURSIVE SeqsUpTo(_)
SeqsUpTo(n) ==
    IF n = 0 THEN {<<>>}
    ELSE LET S == SeqsUpTo(n - 1)
         IN  S \cup {Append(s, b) : s \in {t \in S : Len(t) = n - 1}, b \in Byte}

Contents == SeqsUpTo(MaxLen)

\* f.read(size) at offset pos: the next size bytes, fewer at the end of the
\* file, the empty bytes object at or past the end.
FileRead(data, pos, size) ==
    SubSeq(data, pos + 1, IF pos + size > Len(data) THEN Len(data) ELSE pos + size)

\* Number of f.read calls the loop makes on a file of n bytes: one per
\* non-empty chunk and the final empty read.
NumReads(n) == ((n + ChunkSize - 1) \div ChunkSize) + 1

\* A file system entry for the target path.  failAt = -1: every operation
\* succeeds; failAt = 0: open() raises OSError (permission, directory, ...);
\* failAt = k > 0: the k-th f.read raises OSError (device error, truncation).
Missing == [exists |-> FALSE, data |-> <<>>, failAt |-> -1]

Files ==
    {Missing} \cup
    UNION {{[exists |-> TRUE, data |-> d, failAt |-> k] :
                k \in -1..NumReads(Len(d))} : d \in Contents}

Readable(file) == file.exists /\ file.failAt = -1

\* The text the entry point writes into the sample file (lines 127-130).
SampleText == <<1, 0>>

\* -------------------------------------------------------------- hashlib
HashNew(alg) == [alg |-> alg, msg |-> <<>>]

HashUpdate(h, chunk) == [h EXCEPT !.msg = h.msg \o chunk]

Hexdigest(h) == [type |-> "str", alg |-> h.alg, msg |-> h.msg]

\* The digest of a whole byte sequence, for stating the claims.
Sha256Hex(bytes) == Hexdigest(HashUpdate(HashNew("sha256"), bytes))

\* Python truth value of an object that is None or a hex digest string (a
\* hex digest has 2 * digest_size > 0 characters).
Truthy(v) == v # None

\* ------------------------------------------------------- time, datetime
\* datetime.datetime.utcnow() at clock reading t (in ticks).
UtcNow(t) == [sec |-> t \div TicksPerSec, micro |-> t % TicksPerSec]

\* int(time.time()) at clock reading t.
IntTime(t) == t \div TicksPerSec

\* datetime.isoformat() + "Z": the fraction is left out when it is zero.
Isoformat(dt) ==
    [datetime |-> dt.sec,
     fraction |-> IF dt.micro = 0 THEN <<>> ELSE <<dt.micro>>,
     suffix   |-> "Z"]

\* The whole-second Unix epoch value of the instant an ISO-8601 string denotes.
EpochOfIso(s) == s.datetime

VARIABLES
    pc,                 \* position of the running process, "idle" between runs
    fs,                 \* the file system entry at file_path
    stdout,             \* lines printed by the running process
    exitStatus,         \* exit status of the process, -1 while running
    exc,                \* the exception raised in this run, "none" if none
    hasher,             \* calculate_content_hash: hasher
    f,                  \* calculate_content_hash: the read handle
    chunk,              \* calculate_content_hash: the last chunk read
    content_hash,       \* run_ludi_verification: content_hash
    clock,              \* wall clock (ticks) at the process's last reading
    current_utc,        \* simulate_blockchain_timestamp: current_utc
    current_unix,       \* simulate_blockchain_timestamp: current_unix
    verification_result,\* simulate_blockchain_timestamp: verification_result
    verification_data,  \* run_ludi_verification: verification_data
    emitted,            \* the record printed as JSON (line 110)
    anchorAvailable,    \* whether a ledger was reachable during the delay
    prev                \* what the caller saw of the previous invocation

vars == <<pc, fs, stdout, exitStatus, exc, hasher, f, chunk, content_hash,
          clock, current_utc, current_unix, verification_result,
          verification_data, emitted, anchorAvailable, prev>>

NoHandle == [state |-> "none", pos |-> 0, reads |-> 0]

NoPrev == [kind |-> "none", data |-> <<>>, ret |-> None]

Init ==
    /\ pc = "idle"
    /\ fs \in Files
    /\ stdout = <<>>
    /\ exitStatus = -1
    /\ exc = "none"
    /\ hasher = None
    /\ f = NoHandle
    /\ chunk = <<>>
    /\ content_hash = None
    /\ clock = 0
    /\ current_utc = None
    /\ current_unix = -1
    /\ verification_result = None
    /\ verification_data = None
    /\ emitted = None
    /\ anchorAvailable = TRUE
    /\ prev = NoPrev

Out(line) == stdout' = Append(stdout, line)

\* ----------------------------------------------------------- entry point
\* Lines 116-134: choose the path; without an argument the sample file is
\* created when it is absent, and a failure to create it exits with 1.
Main ==
    /\ pc = "idle"
    /\ \E given \in BOOLEAN, createOk \in BOOLEAN :
        \/ /\ given \/ fs.exists
           /\ pc' = "run"
           /\ UNCHANGED <<fs, stdout, exitStatus>>
        \/ /\ ~given /\ ~fs.exists /\ createOk
           /\ fs' = [exists |-> TRUE, data |-> SampleText, failAt |-> -1]
           /\ Out("SAMPLE_CREATED")
           /\ pc' = "run"
           /\ UNCHANGED exitStatus
        \/ /\ ~given /\ ~fs.exists /\ ~createOk
           /\ Out("SAMPLE_CREATE_FAILED")
           /\ exitStatus' = 1
           /\ pc' = "exit"
           /\ UNCHANGED fs
    /\ UNCHANGED <<exc, hasher, f, chunk, content_hash, clock, current_utc,
                   current_unix, verification_result, verification_data,
                   emitted, anchorAvailable, prev>>

\* ------------------------------------------------- run_ludi_verification
\* Lines 80-86: the banner, then the call of calculate_content_hash.
RunStart ==
    /\ pc = "run"
    /\ Out("BANNER")
    /\ pc' = "calc"
    /\ UNCHANGED <<fs, exitStatus, exc, hasher, f, chunk, content_hash, clock,
                   current_utc, current_unix, verification_result,
                   verification_data, emitted, anchorAvailable, prev>>

\* ------------------------------------------------ calculate_content_hash
\* calculate_content_hash without the existence test of lines 24-26.
CalcExistsUnchecked ==
    /\ pc = "calc"
    /\ hasher' = HashNew("sha256")
    /\ pc' = "open"
    /\ UNCHANGED <<fs, stdout, exitStatus, exc, f, chunk, content_hash, clock,
                   current_utc, current_unix, verification_result,
                   verification_data, emitted, anchorAvailable, prev>>

\* Lines 24-28: a path that does not exist returns None; otherwise the
\* hasher is created.
CalcExists ==
    /\ pc = "calc"
    /\ IF ~fs.exists
       THEN /\ Out("ERROR_NOT_FOUND")
            /\ content_hash' = None
            /\ pc' = "check"
            /\ UNCHANGED hasher
       ELSE /\ hasher' = HashNew("sha256")
            /\ pc' = "open"
            /\ UNCHANGED <<stdout, content_hash>>
    /\ UNCHANGED <<fs, exitStatus, exc, f, chunk, clock, current_utc,
                   current_unix, verification_result, verification_data,
                   emitted, anchorAvailable, prev>>

\* Lines 30-31: open(file_path, 'rb'); an OSError (the file is gone, may not
\* be read, is a directory) goes to the handler.
CalcOpen ==
    /\ pc = "open"
    /\ IF ~fs.exists \/ fs.failAt = 0
       THEN /\ exc' = "OSError"
            /\ pc' = "except"
            /\ UNCHANGED f
       ELSE /\ f' = [state |-> "open", pos |-> 0, reads |-> 0]
            /\ pc' = "read"
            /\ UNCHANGED exc
    /\ UNCHANGED <<fs, stdout, exitStatus, hasher, chunk, content_hash, clock,
                   current_utc, current_unix, verification_result,
                   verification_data, emitted, anchorAvailable, prev>>

\* The read loop with the hasher created anew in every iteration, so that
\* only the last chunk is in it.
CalcReadRehash ==
    /\ pc = "read"
    /\ IF fs.failAt = f.reads + 1
       THEN /\ exc' = "OSError"
            /\ f' = [f EXCEPT !.state = "closed", !.reads = @ + 1]
            /\ pc' = "except"
            /\ UNCHANGED <<chunk, hasher>>
       ELSE LET c == FileRead(fs.data, f.pos, ChunkSize)
            IN  /\ chunk' = c
                /\ UNCHANGED exc
                /\ IF c = <<>>
                   THEN /\ f' = [f EXCEPT !.state = "closed", !.reads = @ + 1]
                        /\ pc' = "digest"
                        /\ UNCHANGED hasher
                   ELSE /\ f' = [f EXCEPT !.pos = @ + Len(c), !.reads = @ + 1]
                        /\ hasher' = HashUpdate(HashNew("sha256"), c)
                        /\ pc' = "read"
    /\ UNCHANGED <<fs, stdout, exitStatus, content_hash, clock, current_utc,
                   current_unix, verification_result, verification_data,
                   emitted, anchorAvailable, prev>>

\* Lines 33-37, one iteration: read a chunk; an empty chunk leaves the loop
\* and the with block (which closes the handle), any other chunk is folded
\* into the hasher.  A read error leaves the with block through __exit__,
\* which closes the handle, and goes to the handler.
CalcRead ==
    /\ pc = "read"
    /\ IF fs.failAt = f.reads + 1
       THEN /\ exc' = "OSError"
            /\ f' = [f EXCEPT !.state = "closed", !.reads = @ + 1]
            /\ pc' = "except"
            /\ UNCHANGED <<chunk, hasher>>
       ELSE LET c == FileRead(fs.data, f.pos, ChunkSize)
            IN  /\ chunk' = c
                /\ UNCHANGED exc
                /\ IF c = <<>>
                   THEN /\ f' = [f EXCEPT !.state = "closed", !.reads = @ + 1]
                        /\ pc' = "digest"
                        /\ UNCHANGED hasher
                   ELSE /\ f' = [f EXCEPT !.pos = @ + Len(c), !.reads = @ + 1]
                        /\ hasher' = HashUpdate(hasher, c)
                        /\ pc' = "read"
    /\ UNCHANGED <<fs, stdout, exitStatus, content_hash, clock, current_utc,
                   current_unix, verification_result, verification_data,
                   emitted, anchorAvailable, prev>>

\* calculate_content_hash answering from a remembered digest of an earlier
\* call when there is one.
CalcDigestCached ==
    /\ pc = "digest"
    /\ content_hash' = IF Truthy(prev.ret) THEN prev.ret ELSE Hexdigest(hasher)
    /\ pc' = "check"
    /\ UNCHANGED <<fs, stdout, exitStatus, exc, hasher, f, chunk, clock,
                   current_utc, current_unix, verification_result,
                   verification_data, emitted, anchorAvailable, prev>>

\* Line 39: return hasher.hexdigest(); the caller assigns it (line 86).
CalcDigest ==
    /\ pc = "digest"
    /\ content_hash' = Hexdigest(hasher)
    /\ pc' = "check"
    /\ UNCHANGED <<fs, stdout, exitStatus, exc, hasher, f, chunk, clock,
                   current_utc, current_unix, verification_result,
                   verification_data, emitted, anchorAvailable, prev>>

\* The handler returning the digest of what had been read before the error.
CalcExceptPartial ==
    /\ pc = "except"
    /\ Out("ERROR_PROCESSING")
    /\ content_hash' = Hexdigest(hasher)
    /\ pc' = "check"
    /\ UNCHANGED <<fs, exitStatus, exc, hasher, f, chunk, clock, current_utc,
                   current_unix, verification_result, verification_data,
                   emitted, anchorAvailable, prev>>

\* Lines 41-43: except Exception: print the error, return None.
CalcExcept ==
    /\ pc = "except"
    /\ Out("ERROR_PROCESSING")
    /\ content_hash' = None
    /\ pc' = "check"
    /\ UNCHANGED <<fs, exitStatus, exc, hasher, f, chunk, clock, current_utc,
                   current_unix, verification_result, verification_data,
                   emitted, anchorAvailable, prev>>

\* The caller's cancellation: a KeyboardInterrupt delivered while the
\* process blocks in f.read (line 34) or in time.sleep (line 69).  It is
\* no Exception, so line 41 does not catch it; the with block closes the
\* handle on the way out, and nothing up the stack catches it.
Cancel ==
    /\ pc \in {"read", "sleep"}
    /\ exc' = "KeyboardInterrupt"
    /\ f' = IF pc = "read" THEN [f EXCEPT !.state = "closed"] ELSE f
    /\ pc' = "raised"
    /\ UNCHANGED <<fs, stdout, exitStatus, hasher, chunk, content_hash, clock,
                   current_utc, current_unix, verification_result,
                   verification_data, emitted, anchorAvailable, prev>>

\* run_ludi_verification without the return of line 89.
CheckHashNoReturn ==
    /\ pc = "check"
    /\ Out(IF ~Truthy(content_hash) THEN "PROCESS_FAILED" ELSE "HASH_DONE")
    /\ pc' = "utc"
    /\ UNCHANGED <<fs, exitStatus, exc, hasher, f, chunk, content_hash, clock,
                   current_utc, current_unix, verification_result,
                   verification_data, emitted, anchorAvailable, prev>>

\* Lines 87-96: no digest: report the failure and return; otherwise print
\* the digest and call simulate_blockchain_timestamp.
CheckHash ==
    /\ pc = "check"
    /\ IF ~Truthy(content_hash)
       THEN /\ Out("PROCESS_FAILED")
            /\ pc' = "run_ret"
       ELSE /\ Out("HASH_DONE")
            /\ pc' = "utc"
    /\ UNCHANGED <<fs, exitStatus, exc, hasher, f, chunk, content_hash, clock,
                   current_utc, current_unix, verification_result,
                   verification_data, emitted, anchorAvailable, prev>>

\* ----------------------------------------- simulate_blockchain_timestamp
\* Line 55: current_utc = datetime.datetime.utcnow().
SimUtc ==
    /\ pc = "utc"
    /\ \E t \in 0..MaxClock :
        /\ clock' = t
        /\ current_utc' = UtcNow(t)
    /\ pc' = "unix"
    /\ UNCHANGED <<fs, stdout, exitStatus, exc, hasher, f, chunk, content_hash,
                   current_unix, verification_result, verification_data,
                   emitted, anchorAvailable, prev>>

\* Line 56: current_unix = int(time.time()), a second reading of the clock,
\* which has gone on by some amount since the first.
SimUnix ==
    /\ pc = "unix"
    /\ \E d \in 0..MaxDrift :
        /\ clock' = clock + d
        /\ current_unix' = IntTime(clock + d)
    /\ pc' = "build"
    /\ UNCHANGED <<fs, stdout, exitStatus, exc, hasher, f, chunk, content_hash,
                   current_utc, verification_result, verification_data,
                   emitted, anchorAvailable, prev>>

\* The record with the hasher's algorithm name and a pending status.
BuildRecordPending(hash, utc, unix) ==
    [verifier_name       |-> "LUDI_Verifier_PoC_V1.0",
     hash_algorithm      |-> hash.alg,
     content_hash        |-> hash,
     timestamp_utc       |-> Isoformat(utc),
     timestamp_unix      |-> unix,
     blockchain_block    |-> "",
     verification_status |-> "PENDING"]

\* Lines 58-66: the record.
BuildRecord(hash, utc, unix) ==
    [verifier_name       |-> "LUDI_Verifier_PoC_V1.0",
     hash_algorithm      |-> "SHA-256",
     content_hash        |-> hash,
     timestamp_utc       |-> Isoformat(utc),
     timestamp_unix      |-> unix,
     blockchain_block    |-> "Simulated Block ID: 1A2B3C4D5E",
     verification_status |-> "AUTHENTICITY_REGISTERED"]

SimBuild ==
    /\ pc = "build"
    /\ verification_result' = BuildRecord(content_hash, current_utc, current_unix)
    /\ pc' = "sleep"
    /\ UNCHANGED <<fs, stdout, exitStatus, exc, hasher, f, chunk, content_hash,
                   clock, current_utc, current_unix, verification_data,
                   emitted, anchorAvailable, prev>>

\* Line 69: time.sleep(1) stands in for the ledger transaction.  Whether a
\* ledger could have been reached meanwhile is the environment's choice; the
\* code asks nobody, so nothing it does depends on the answer.
SimSleep ==
    /\ pc = "sleep"
    /\ \E up \in BOOLEAN : anchorAvailable' = up
    /\ pc' = "report"
    /\ UNCHANGED <<fs, stdout, exitStatus, exc, hasher, f, chunk, content_hash,
                   clock, current_utc, current_unix, verification_result,
                   verification_data, emitted, prev>>

\* Lines 71 and 98-113: the record is returned, printed field by field and
\* printed as JSON.
Report ==
    /\ pc = "report"
    /\ verification_data' = verification_result
    /\ emitted' = verification_result
    /\ stdout' = stdout \o <<"RECORD_DONE", "JSON">>
    /\ pc' = "run_ret"
    /\ UNCHANGED <<fs, exitStatus, exc, hasher, f, chunk, content_hash, clock,
                   current_utc, current_unix, verification_result,
                   anchorAvailable, prev>>

\* ------------------------------------------------------- end of process
\* Line 136: run_ludi_verification has returned (always None) and the
\* script ends: exit status 0.
RunReturn ==
    /\ pc = "run_ret"
    /\ exitStatus' = 0
    /\ pc' = "exit"
    /\ UNCHANGED <<fs, stdout, exc, hasher, f, chunk, content_hash, clock,
                   current_utc, current_unix, verification_result,
                   verification_data, emitted, anchorAvailable, prev>>

\* An exception nobody caught: traceback, and the interpreter ends.
Uncaught ==
    /\ pc = "raised"
    /\ Out("TRACEBACK")
    /\ exitStatus' = InterruptedStatus
    /\ pc' = "exit"
    /\ UNCHANGED <<fs, exc, hasher, f, chunk, content_hash, clock, current_utc,
                   current_unix, verification_result, verification_data,
                   emitted, anchorAvailable, prev>>

\* ------------------------------------------------------------ the caller
\* The kind of failure of the finished invocation, from what happened in it.
FailureKind ==
    IF exc = "KeyboardInterrupt" THEN "Cancelled"
    ELSE IF exc = "OSError" THEN "IOFailure"
    ELSE IF exitStatus = 1 THEN "BootstrapFailed"
    ELSE IF ~fs.exists THEN "NotFound"
    ELSE "ok"

\* What the caller keeps of a finished invocation: its kind, the value
\* calculate_content_hash returned and, with a digest, the content hashed.
Summary ==
    [kind |-> FailureKind,
     data |-> IF Truthy(content_hash) THEN fs.data ELSE <<>>,
     ret  |-> content_hash]

\* The process is gone: nothing of it survives but what the caller saw.
\* Each invocation is a fresh process.
NextInvocation ==
    /\ pc = "exit"
    /\ prev' = Summary
    /\ pc' = "idle"
    /\ stdout' = <<>>
    /\ exitStatus' = -1
    /\ exc' = "none"
    /\ hasher' = None
    /\ f' = NoHandle
    /\ chunk' = <<>>
    /\ content_hash' = None
    /\ clock' = 0
    /\ current_utc' = None
    /\ current_unix' = -1
    /\ verification_result' = None
    /\ verification_data' = None
    /\ emitted' = None
    /\ anchorAvailable' = TRUE
    /\ UNCHANGED fs

\* Other processes change the file between two invocations.
ChangeFile ==
    /\ pc = "idle"
    /\ \E new \in Files \ {fs} : fs' = new
    /\ UNCHANGED <<pc, stdout, exitStatus, exc, hasher, f, chunk, content_hash,
                   clock, current_utc, current_unix, verification_result,
                   verification_data, emitted, anchorAvailable, prev>>

ProcessStep ==
    \/ RunStart \/ CalcExists \/ CalcOpen \/ CalcRead \/ CalcDigest
    \/ CalcExcept \/ CheckHash \/ SimUtc \/ SimUnix \/ SimBuild \/ SimSleep
    \/ Report \/ RunReturn \/ Uncaught

Next ==
    \/ Main
    \/ RunStart
    \/ CalcExists
    \/ CalcOpen
    \/ CalcRead
    \/ CalcDigest
    \/ CalcExcept
    \/ Cancel
    \/ CheckHash
    \/ SimUtc
    \/ SimUnix
    \/ SimBuild
    \/ SimSleep
    \/ Report
    \/ RunReturn
    \/ Uncaught
    \/ NextInvocation
    \/ ChangeFile

Spec == Init /\ [][Next]_vars

\* A started process keeps running: the interpreter executes the next
\* statement.  Nothing obliges the caller to invoke, to cancel or to change
\* the file.
FairSpec == Spec /\ WF_vars(ProcessStep)

TypeOK ==
    /\ fs \in Files
    /\ f.state \in {"none", "open", "closed"}
    /\ exitStatus \in {-1, 0, 1, InterruptedStatus}

\* ================================================================ claims
Printed(line) == \E i \in 1..Len(stdout) : stdout[i] = line

\* calculate_content_hash has been called in this invocation and is over.
HashingOver == pc \in {"check", "utc", "unix", "build", "sleep", "report",
                       "run_ret", "raised"}
               \/ (pc = "exit" /\ Printed("BANNER"))

\* run_ludi_verification has ended, by returning or by an exception.
RunEnded == pc \in {"run_ret", "raised"} \/ (pc = "exit" /\ Printed("BANNER"))

\* The state of the request (section 4.2), read off the running process:
\* where it stands and, once it has ended, what it left behind.
ReqState ==
    IF pc = "run" THEN "START"
    ELSE IF pc \in {"calc", "open", "read", "digest", "except"} THEN "HASHING"
    ELSE IF pc = "check"
         THEN (IF Truthy(content_hash) THEN "HASHED" ELSE "HASHING")
    ELSE IF pc \in {"utc", "unix", "build", "sleep", "report"} THEN "ANCHORING"
    ELSE IF RunEnded
         THEN (IF emitted # None /\ exc = "none" THEN "REGISTERED"
               ELSE IF emitted = None /\ ~Truthy(content_hash) THEN "FAILED"
               ELSE IF emitted = None /\ exc # "none" THEN "ANCHOR_FAILED"
               ELSE "UNDEFINED")
    ELSE "NONE"

TerminalStates == {"REGISTERED", "FAILED", "ANCHOR_FAILED"}

AllowedMoves ==
    {<<"NONE", "START">>,
     <<"START", "HASHING">>, <<"HASHING", "HASHED">>,
     <<"HASHED", "ANCHORING">>, <<"ANCHORING", "REGISTERED">>,
     <<"START", "FAILED">>, <<"HASHING", "FAILED">>,
     <<"ANCHORING", "ANCHOR_FAILED">>}
    \cup {<<t, "NONE">> : t \in TerminalStates}

\* C1: a request starts in START, moves only along START -> HASHING ->
\* HASHED -> ANCHORING -> REGISTERED, START/HASHING -> FAILED or ANCHORING ->
\* ANCHOR_FAILED, every started request ends in one of the three terminal
\* states, and anchoring is entered only with the digest hashing returned.
C1_StateMachine ==
    /\ [][ReqState' # ReqState => <<ReqState, ReqState'>> \in AllowedMoves]_vars
    /\ [](RunEnded => ReqState \in TerminalStates)
    /\ [](ReqState = "ANCHORING" => Truthy(content_hash) /\ content_hash.type = "str")
    /\ (ReqState = "START" ~> ReqState \in TerminalStates)

C1_Witness ==
    /\ pc = "exit"
    /\ ReqState = "REGISTERED"
    /\ prev.kind \in {"NotFound", "IOFailure", "Cancelled"}

\* C2: when the anchoring collaborator is unavailable during a request, the
\* request ends ANCHOR_FAILED and no record is emitted.
C2_AnchorUnavailable ==
    (RunEnded /\ ~anchorAvailable) =>
        /\ ReqState = "ANCHOR_FAILED"
        /\ emitted = None
        /\ verification_data = None

\* C3: for a path that does not exist calculate_content_hash reports the
\* missing file and returns no digest, and run_ludi_verification stops
\* without entering simulate_blockchain_timestamp and without a record.
C3_NotFound ==
    (~fs.exists /\ Printed("BANNER") /\ pc # "calc") =>
        /\ pc \in {"check", "run_ret", "exit"}
        /\ Printed("ERROR_NOT_FOUND")
        /\ content_hash = None
        /\ f.state = "none"
        /\ verification_result = None
        /\ verification_data = None
        /\ emitted = None

C3_Witness ==
    /\ ~fs.exists
    /\ pc = "exit"
    /\ Printed("PROCESS_FAILED")
    /\ emitted = None

\* The record a successful verification emits, but for its status.
RecordOfRequest(r) ==
    /\ r.content_hash = content_hash
    /\ r.content_hash = Sha256Hex(fs.data)
    /\ r.hash_algorithm = "SHA-256"
    /\ r.blockchain_block # ""

ReportedKinds == {"NotFound", "IOFailure", "AnchorUnavailable"}

\* C5: two requests that fail in different ways (NotFound, IOFailure,
\* AnchorUnavailable) return different outcomes from
\* calculate_content_hash, and neither ends as a success.
C5_Distinguishable ==
    (/\ pc = "exit"
     /\ FailureKind \in ReportedKinds
     /\ prev.kind \in ReportedKinds
     /\ prev.kind # FailureKind) =>
        /\ prev.ret # content_hash
        /\ emitted = None

\* The read loop was interrupted, by a read error or by a cancellation.
ReadInterrupted == exc # "none" /\ f.state # "none" /\ verification_result = None

\* C6: once the read loop has been interrupted by a read error or a
\* cancellation, the read handle is closed, no digest is returned and no
\* record is built or emitted.
C6_Interrupted ==
    ReadInterrupted =>
        /\ f.state = "closed"
        /\ content_hash = None
        /\ pc \in {"except", "check", "run_ret", "raised", "exit"}
        /\ verification_data = None
        /\ emitted = None

C6_Witness ==
    /\ ReadInterrupted
    /\ exc = "KeyboardInterrupt"
    /\ Len(hasher.msg) >= 1
    /\ pc = "exit"

\* C7: a digest returned by calculate_content_hash is the digest of the
\* content the file has at that call; it equals the digest the previous
\* call returned exactly when the content is the same.
C7_Deterministic ==
    (HashingOver /\ Truthy(content_hash)) =>
        /\ content_hash = Sha256Hex(fs.data)
        /\ Truthy(prev.ret) => ((prev.data = fs.data) <=> (prev.ret = content_hash))

C7_Witness ==
    /\ pc = "check"
    /\ Truthy(content_hash)
    /\ Truthy(prev.ret)
    /\ Len(prev.data) = Len(fs.data)
    /\ prev.data # fs.data

\* C8: the process exits with 1 when the source is unreadable (missing, or
\* failing when opened or read) and with 0 otherwise.
C8_ExitStatus ==
    (pc = "exit" /\ exc # "KeyboardInterrupt") =>
        exitStatus = (IF Readable(fs) THEN 0 ELSE 1)

\* C9: on a readable source the read loop ends; every chunk has at most
\* ChunkSize bytes; the chunks folded in are, in order, the bytes of the
\* source read so far; the loop stops at the first empty read; the digest
\* returned is that of the whole content; the request goes on to a record,
\* also for the empty source.
C9_ReadLoop ==
    /\ [](Len(chunk) <= ChunkSize)
    /\ [](f.state = "open" => hasher.msg = SubSeq(fs.data, 1, f.pos))
    /\ []((Readable(fs) /\ pc = "digest") =>
            /\ chunk = <<>>
            /\ f.reads = NumReads(Len(fs.data))
            /\ hasher.msg = fs.data)
    /\ []((Readable(fs) /\ HashingOver /\ exc = "none") =>
            /\ content_hash = Sha256Hex(fs.data)
            /\ ~Printed("PROCESS_FAILED"))
    /\ []((Readable(fs) /\ pc = "run_ret") => emitted # None)
    /\ ((Readable(fs) /\ pc = "read") ~> (pc \in {"digest", "raised"}))

C9_Witness ==
    /\ Readable(fs)
    /\ Len(fs.data) > ChunkSize
    /\ pc = "run_ret"
    /\ emitted # None
    /\ emitted.content_hash = Sha256Hex(fs.data)

\* C10: in every record built, timestamp_unix is the whole-second epoch
\* value of the instant timestamp_utc denotes.
C10_SameInstant ==
    verification_result # None =>
        verification_result.timestamp_unix =
            EpochOfIso(verification_result.timestamp_utc)

====
